---- MODULE Spec2Model ----
(***************************************************************************)
(* je-di: hierarchical dependency resolution against one shared World.     *)
(*                                                                         *)
(* The synchronous variant (src/src/lib.rs) is modelled by the recursive   *)
(* operator from_world, which returns the result of a resolution together  *)
(* with the events it performs.  The asynchronous variant                  *)
(* (src/src/async_dependency.rs) is modelled by a machine of frames, one   *)
(* frame per future, in which every construction function may suspend.     *)
(***************************************************************************)
EXTENDS Naturals, Sequences, FiniteSets

VARIABLES world, site, calls

vars == <<world, site, calls>>

----------------------------------------------------------------------------
(* Bounds of the model *)

\* Depth of the longest linear chain L1 <- L2 <- ... of the type graph.
ChainDepth == 5

\* At most this many construction functions of a chain fail in one World.
MaxFailing == 2

\* Number of extract / extract_async calls made on one container.
MaxCalls == 2

\* How often one construction function may suspend before it completes.
MaxSuspend == 1

(* Program constants: the arities impl_tuple! is invoked for *)
MinArity == 2
MaxArity == 9

----------------------------------------------------------------------------
(* The type graph: targets, their resolution path and associated types *)

T(name, i) == <<name, i>>

Members9 == {T("M", i) : i \in 1..MaxArity}
ChainTargets == {T("L", i) : i \in 1..ChainDepth}
TupleTargets == {T("Tup", n) : n \in MinArity..MaxArity}

\* Types that implement FromWorld / FromAsyncWorld by hand.
DirectTargets ==
    Members9 \cup {T("L", 1), T("D", 0), T("Printer", 0), T("AuthHeader", 0),
                   T("Far", 0)}

\* Types that implement FromDependency / FromAsyncDependency.
DerivedTargets ==
    {T("L", i) : i \in 2..ChainDepth}
      \cup {T("A", 0), T("B", 0), T("C", 0), T("Looper", 0),
            T("ValidatedUser", 0), T("Profile", 0), T("Lifted", 0),
            T("Alien", 0), T("Opaque", 0)}

\* Tuples of types, covered by impl_tuple!.
AggregateTargets ==
    TupleTargets \cup {T("BC", 0), T("Nest", 0), T("Mixed", 0), T("Split", 0)}

Targets == DirectTargets \cup DerivedTargets \cup AggregateTargets

Kind(t) ==
    IF t \in DirectTargets THEN "direct"
    ELSE IF t \in DerivedTargets THEN "derived"
    ELSE "tuple"

\* type Dependency of a FromDependency / FromAsyncDependency implementation
Dependency(t) ==
    CASE t[1] = "L" -> T("L", t[2] - 1)
      [] t = T("A", 0) -> T("BC", 0)
      [] t = T("B", 0) -> T("D", 0)
      [] t = T("C", 0) -> T("D", 0)
      [] t = T("Looper", 0) -> T("Printer", 0)
      [] t = T("ValidatedUser", 0) -> T("AuthHeader", 0)
      [] t = T("Profile", 0) -> T("AuthHeader", 0)
      [] t \in {T("Lifted", 0), T("Alien", 0), T("Opaque", 0)} -> T("L", 1)

\* the member types of a tuple type, left to right
Members(t) ==
    CASE t[1] = "Tup" -> [i \in 1..t[2] |-> T("M", i)]
      [] t = T("BC", 0) -> <<T("B", 0), T("C", 0)>>
      [] t = T("Nest", 0) -> <<T("L", 2), T("Tup", 2), T("A", 0)>>
      [] t = T("Mixed", 0) -> <<T("M", 1), T("Printer", 0)>>
      [] t = T("Split", 0) -> <<T("M", 1), T("Far", 0)>>

RECURSIVE ErrorTy(_)
\* type Error of a target; a tuple takes the Error of its first member
ErrorTy(t) ==
    CASE t \in {T("Printer", 0), T("Looper", 0)} -> "String"
      [] t \in {T("AuthHeader", 0), T("ValidatedUser", 0)} -> "StatusCode"
      [] t \in {T("Profile", 0), T("Lifted", 0)} -> "AppError"
      [] t = T("Opaque", 0) -> "Opaque"
      [] Kind(t) = "tuple" -> ErrorTy(Members(t)[1])
      [] OTHER -> "E"

RECURSIVE WorldTy(_)
\* type World<'a> of a target; a tuple takes the World of its first member
WorldTy(t) ==
    CASE t \in {T("AuthHeader", 0), T("ValidatedUser", 0), T("Profile", 0)}
           -> "RequestParts"
      [] t \in {T("Alien", 0), T("Far", 0)} -> "OtherWorld"
      [] Kind(t) = "tuple" -> WorldTy(Members(t)[1])
      [] OTHER -> "World"

\* the impl From<X> for Y the users declare between Error types, besides the
\* reflexive impl<T> From<T> for T of the standard library
FromImpls == {<<"StatusCode", "AppError">>, <<"E", "AppError">>}
HasFrom(x, y) == x = y \/ <<x, y>> \in FromImpls

\* AuthHeader and its dependents are written against the async traits only.
AsyncOnly == {T("AuthHeader", 0), T("ValidatedUser", 0), T("Profile", 0)}

RECURSIVE ImplFromWorld(_)
RECURSIVE ImplFromAsyncWorld(_)

\* Variant of the sync bounds without Error = Self::Error on the Dependency.
ImplFromWorld_any_error(t) ==
    /\ t \notin AsyncOnly
    /\ CASE Kind(t) = "direct" -> TRUE
         [] Kind(t) = "derived" ->
              /\ ImplFromWorld(Dependency(t))
              /\ WorldTy(Dependency(t)) = WorldTy(t)
         [] Kind(t) = "tuple" ->
              \A i \in 1..Len(Members(t)) :
                  /\ ImplFromWorld(Members(t)[i])
                  /\ WorldTy(Members(t)[i]) = WorldTy(Members(t)[1])
                  /\ ErrorTy(Members(t)[i]) = ErrorTy(Members(t)[1])

\* t: FromWorld holds.  A Derived type needs Dependency: FromWorld<World =
\* Self::World, Error = Self::Error> (lib.rs:166); a tuple needs every member
\* to have the World and the Error of the first (lib.rs:196).
ImplFromWorld(t) ==
    /\ t \notin AsyncOnly
    /\ CASE Kind(t) = "direct" -> TRUE
         [] Kind(t) = "derived" ->
              /\ ImplFromWorld(Dependency(t))
              /\ WorldTy(Dependency(t)) = WorldTy(t)
              /\ ErrorTy(Dependency(t)) = ErrorTy(t)
         [] Kind(t) = "tuple" ->
              \A i \in 1..Len(Members(t)) :
                  /\ ImplFromWorld(Members(t)[i])
                  /\ WorldTy(Members(t)[i]) = WorldTy(Members(t)[1])
                  /\ ErrorTy(Members(t)[i]) = ErrorTy(Members(t)[1])

\* t: FromAsyncWorld holds.  A Derived type needs Dependency:
\* FromAsyncWorld<World = Self::World> (async_dependency.rs:136) and
\* Self::Error: From<Dependency::Error> (async_dependency.rs:151); a tuple
\* needs what the sync tuple needs (async_dependency.rs:169).
ImplFromAsyncWorld(t) ==
    CASE Kind(t) = "direct" -> TRUE
      [] Kind(t) = "derived" ->
           /\ ImplFromAsyncWorld(Dependency(t))
           /\ WorldTy(Dependency(t)) = WorldTy(t)
           /\ HasFrom(ErrorTy(Dependency(t)), ErrorTy(t))
      [] Kind(t) = "tuple" ->
           \A i \in 1..Len(Members(t)) :
               /\ ImplFromAsyncWorld(Members(t)[i])
               /\ WorldTy(Members(t)[i]) = WorldTy(Members(t)[1])
               /\ ErrorTy(Members(t)[i]) = ErrorTy(Members(t)[1])

\* the types the compiler accepts as targets of extract / extract_async
SyncTargets == {t \in Targets : ImplFromWorld(t)}
AsyncTargets == {t \in Targets : ImplFromAsyncWorld(t)}

\* The types a caller writes an extract or extract_async for.
Roots ==
    ChainTargets \cup TupleTargets
      \cup {T("A", 0), T("B", 0), T("BC", 0), T("Nest", 0), T("Looper", 0),
            T("Printer", 0), T("ValidatedUser", 0), T("Profile", 0),
            T("Lifted", 0), T("Alien", 0), T("Opaque", 0), T("Mixed", 0),
            T("Split", 0)}

Sites ==
    {s \in [t : Roots, async : BOOLEAN] :
        IF s.async THEN s.t \in AsyncTargets ELSE s.t \in SyncTargets}

RECURSIVE Chain(_)
\* every target a resolution of t may reach
Chain(t) ==
    CASE Kind(t) = "direct" -> {t}
      [] Kind(t) = "derived" -> {t} \cup Chain(Dependency(t))
      [] Kind(t) = "tuple" ->
           {t} \cup UNION {Chain(Members(t)[i]) : i \in 1..Len(Members(t))}

\* targets whose construction function fails when the World says so
Failable == (DirectTargets \cup DerivedTargets)
              \ {T("Printer", 0), T("Looper", 0), T("AuthHeader", 0),
                 T("ValidatedUser", 0)}

----------------------------------------------------------------------------
(* Values, errors and results *)

NoHeader == "<none>"
NonAscii == "<non-ascii>"

Val(tag, data, kids) == [tag |-> tag, data |-> data, kids |-> kids]
NoVal == Val(T("", 0), "", <<>>)

Error(type, kind, detail, via) ==
    [type |-> type, kind |-> kind, detail |-> detail, via |-> via]
NoErr == Error("", "", T("", 0), <<>>)
UNAUTHORIZED == Error("StatusCode", "UNAUTHORIZED", T("", 0), <<>>)

Ok(v) == [st |-> "ok", val |-> v, err |-> NoErr]
Err(e) == [st |-> "err", val |-> NoVal, err |-> e]
NoRes == [st |-> "none", val |-> NoVal, err |-> NoErr]

\* the conversion a caller declares between two different Error types
FromWrapped(e, ty) == Error(ty, e.kind, e.detail, Append(e.via, e.type))

\* Variant of the conversion that wraps an error of the same type as well.
FromAlwaysWraps(e, ty) == FromWrapped(e, ty)

\* From::from as applied by the ? operator: the reflexive impl<T> From<T> for T
\* when the types agree, the caller's conversion otherwise
From(e, ty) == IF e.type = ty THEN e ELSE FromWrapped(e, ty)

\* expr? : pass a success on, convert and return a failure
Question(r, ty) == IF r.st = "ok" THEN r ELSE Err(From(r.err, ty))

----------------------------------------------------------------------------
(* The construction functions the users of the crate write *)

\* examples/basic.rs: impl FromWorld for Printer copies the username
Printer_from_world(w) == Ok(Val(T("Printer", 0), w.username, <<>>))

\* examples/basic.rs: impl FromDependency for Looper holds a clone of the Printer
Looper_from_dependency(w, dependency) == Ok(Val(T("Looper", 0), "", <<dependency>>))

\* examples/axum.rs: AuthHeader reads the AUTHORIZATION header of the request
AuthHeader_from_world(w) ==
    IF w.authorization # NoHeader
    THEN IF w.authorization = NonAscii THEN Err(UNAUTHORIZED)
         ELSE Ok(Val(T("AuthHeader", 0), w.authorization, <<>>))
    ELSE Err(UNAUTHORIZED)

\* examples/axum.rs: DBConnection::get_user_id, the service lookup
get_user_id(token) == Ok(Val(T("u64", 0), "1", <<>>))

\* examples/axum.rs: ValidatedUser looks the user of the header up
ValidatedUser_from_dependency(w, header) ==
    LET user_id == get_user_id(header.data)
    IN  IF user_id.st = "ok"
        THEN Ok(Val(T("ValidatedUser", 0), user_id.val.data, <<>>))
        ELSE Err(UNAUTHORIZED)

\* any other implementation of FromWorld::from_world: it fails or succeeds as
\* the World makes it, and its value is built from the World
user_from_world(t, w) ==
    CASE t = T("Printer", 0) -> Printer_from_world(w)
      [] t = T("AuthHeader", 0) -> AuthHeader_from_world(w)
      [] OTHER ->
           IF t \in w.failing THEN Err(Error(ErrorTy(t), "failed", t, <<>>))
           ELSE Ok(Val(t, w.username, <<>>))

\* any other implementation of FromDependency::from_dependency: its value is
\* built from the World and the dependency
user_from_dependency(t, w, dependency) ==
    CASE t = T("Looper", 0) -> Looper_from_dependency(w, dependency)
      [] t = T("ValidatedUser", 0) -> ValidatedUser_from_dependency(w, dependency)
      [] OTHER ->
           IF t \in w.failing THEN Err(Error(ErrorTy(t), "failed", t, <<>>))
           ELSE Ok(Val(t, w.username, <<dependency>>))

----------------------------------------------------------------------------
(* Events: what one resolution does, in order *)

\* ev = "enter": from_world of t is called at position path of the chain;
\* ev = "call" : the construction function fn of t is invoked with World w;
\* ev = "ret"  : from_world of t returns, st tells whether Ok or Err.
Ev(ev, fn, t, path, w, st) ==
    [ev |-> ev, fn |-> fn, t |-> t, path |-> path, w |-> w, st |-> st]

Enter(t, path, w) == Ev("enter", "from_world", t, path, w, "")
Call(fn, t, path, w) == Ev("call", fn, t, path, w, "")
Ret(t, path, w, r) == Ev("ret", "from_world", t, path, w, r.st)

----------------------------------------------------------------------------
(* lib.rs: the synchronous resolution *)

RECURSIVE from_world(_, _, _)
RECURSIVE tuple_members(_, _, _, _, _, _)

\* a hand-written impl FromWorld
direct_from_world(t, w, path) ==
    LET r == user_from_world(t, w)
    IN  [res |-> r,
         log |-> <<Enter(t, path, w), Call("from_world", t, path, w),
                   Ret(t, path, w, r)>>]

\* Variant of the bridge that derives even when the dependency failed.
bridge_from_world_always_derives(t, w, path) ==
    LET d == from_world(Dependency(t), w, Append(path, 1))
        r == user_from_dependency(t, w, d.res.val)
        out == IF d.res.st = "ok" THEN r ELSE Question(d.res, ErrorTy(t))
    IN  [res |-> out,
         log |-> <<Enter(t, path, w)>> \o d.log
                   \o <<Call("from_dependency", t, path, w), Ret(t, path, w, out)>>]

\* Variant of the bridge that derives before it resolves the dependency.
bridge_from_world_derives_first(t, w, path) ==
    LET d == from_world(Dependency(t), w, Append(path, 1))
        dependency == Question(d.res, ErrorTy(t))
        r == IF dependency.st = "ok"
             THEN user_from_dependency(t, w, dependency.val) ELSE dependency
    IN  [res |-> r,
         log |-> <<Enter(t, path, w), Call("from_dependency", t, path, w)>>
                   \o d.log \o <<Ret(t, path, w, r)>>]

\* Variant of the bridge that hands a default value to the derivation.
bridge_from_world_default_dependency(t, w, path) ==
    LET d == from_world(Dependency(t), w, Append(path, 1))
        dependency == Question(d.res, ErrorTy(t))
    IN  IF dependency.st # "ok"
        THEN [res |-> dependency,
              log |-> <<Enter(t, path, w)>> \o d.log
                        \o <<Ret(t, path, w, dependency)>>]
        ELSE LET r == user_from_dependency(t, w, NoVal)
             IN  [res |-> r,
                  log |-> <<Enter(t, path, w)>> \o d.log
                            \o <<Call("from_dependency", t, path, w),
                                 Ret(t, path, w, r)>>]

\* impl<T: FromDependency> FromWorld for T
bridge_from_world(t, w, path) ==
    LET d == from_world(Dependency(t), w, Append(path, 1))
        dependency == Question(d.res, ErrorTy(t))
    IN  IF dependency.st # "ok"
        THEN [res |-> dependency,
              log |-> <<Enter(t, path, w)>> \o d.log
                        \o <<Ret(t, path, w, dependency)>>]
        ELSE LET r == user_from_dependency(t, w, dependency.val)
             IN  [res |-> r,
                  log |-> <<Enter(t, path, w)>> \o d.log
                            \o <<Call("from_dependency", t, path, w),
                                 Ret(t, path, w, r)>>]

\* Variant of the tuple expression that resolves the members after a failed one
\* before it returns the failure.
tuple_members_resolves_all(t, i, w, path, vals, log) ==
    IF i > Len(Members(t))
    THEN [res |-> Ok(Val(T("tuple", Len(vals)), "", vals)), log |-> log]
    ELSE LET m == from_world(Members(t)[i], w, Append(path, i))
             r == Question(m.res, ErrorTy(t))
         IN  IF r.st # "ok"
             THEN [res |-> r,
                   log |-> tuple_members(t, i + 1, w, path, vals, log \o m.log).log]
             ELSE tuple_members(t, i + 1, w, path, Append(vals, r.val),
                                log \o m.log)

\* Variant of the tuple expression that builds the tuple right to left.
tuple_members_reversed(t, i, w, path, vals, log) ==
    IF i > Len(Members(t))
    THEN [res |-> Ok(Val(T("tuple", Len(vals)), "", vals)), log |-> log]
    ELSE LET m == from_world(Members(t)[i], w, Append(path, i))
             r == Question(m.res, ErrorTy(t))
         IN  IF r.st # "ok"
             THEN [res |-> r, log |-> log \o m.log]
             ELSE tuple_members(t, i + 1, w, path, <<r.val>> \o vals,
                                log \o m.log)

\* Variant of the tuple expression in which a Derived member takes the
\* Dependency an earlier member has resolved instead of resolving its own.
tuple_members_shares_resolved(t, i, w, path, vals, log) ==
    IF i > Len(Members(t))
    THEN [res |-> Ok(Val(T("tuple", Len(vals)), "", vals)), log |-> log]
    ELSE LET u == Members(t)[i]
             at == Append(path, i)
             shared ==
                 /\ Kind(u) = "derived"
                 /\ \E n \in 1..Len(log) :
                        /\ log[n].ev = "ret"
                        /\ log[n].t = Dependency(u)
                        /\ log[n].st = "ok"
             d == user_from_dependency(
                      u, w, from_world(Dependency(u), w, Append(at, 1)).res.val)
             m == IF shared
                  THEN [res |-> d,
                        log |-> <<Enter(u, at, w),
                                  Call("from_dependency", u, at, w),
                                  Ret(u, at, w, d)>>]
                  ELSE from_world(u, w, at)
             r == Question(m.res, ErrorTy(t))
         IN  IF r.st # "ok"
             THEN [res |-> r, log |-> log \o m.log]
             ELSE tuple_members(t, i + 1, w, path, Append(vals, r.val),
                                log \o m.log)

\* the members i.. of the tuple expression of impl_tuple!, each followed by ?
tuple_members(t, i, w, path, vals, log) ==
    IF i > Len(Members(t))
    THEN [res |-> Ok(Val(T("tuple", Len(vals)), "", vals)), log |-> log]
    ELSE LET m == from_world(Members(t)[i], w, Append(path, i))
             r == Question(m.res, ErrorTy(t))
         IN  IF r.st # "ok"
             THEN [res |-> r, log |-> log \o m.log]
             ELSE tuple_members(t, i + 1, w, path, Append(vals, r.val),
                                log \o m.log)

\* impl_tuple!: impl FromWorld for (Dep0, Dep1, ...)
tuple_from_world(t, w, path) ==
    LET o == tuple_members(t, 1, w, path, <<>>, <<>>)
    IN  [res |-> o.res,
         log |-> <<Enter(t, path, w)>> \o o.log \o <<Ret(t, path, w, o.res)>>]

\* <T as FromWorld>::from_world, resolved by the type of T
from_world(t, w, path) ==
    CASE Kind(t) = "direct" -> direct_from_world(t, w, path)
      [] Kind(t) = "derived" -> bridge_from_world(t, w, path)
      [] Kind(t) = "tuple" -> tuple_from_world(t, w, path)

----------------------------------------------------------------------------
(* The container and its callers *)

CallIds == 1..MaxCalls

\* One call of the caller: its status, the frames of its future, the result a
\* frame has just returned, the events so far and the result the caller received.
Idle ==
    [status |-> "idle", stack |-> <<>>, ret |-> NoRes, log |-> <<>>,
     result |-> NoRes]

\* Worlds a container is built with, for a program that extracts t.
Worlds(t) ==
    {w \in [username : {"alice", "bob"},
            authorization : {NoHeader, NonAscii, "Bearer tok"},
            failing : SUBSET (Chain(t) \cap Failable)] :
        /\ Cardinality(w.failing) <= MaxFailing
        /\ T("AuthHeader", 0) \notin Chain(t) => w.authorization = NoHeader
        /\ T("Printer", 0) \notin Chain(t) /\ w.failing # {}
             => w.username = "alice"}

\* DIContainer::new(world), in a program whose call site extracts site.t
Init ==
    /\ site \in Sites
    /\ world \in Worlds(site.t)
    /\ calls = [c \in CallIds |-> Idle]

\* a caller makes its calls one after the other
MayCall(c) ==
    /\ calls[c].status = "idle"
    /\ \A d \in CallIds : d < c => calls[d].status = "done"

\* Variant of extract that hands out the result of an earlier call.
extract_memoized(c) ==
    /\ ~site.async
    /\ MayCall(c)
    /\ LET o == from_world(site.t, world, <<>>)
           earlier == {d \in CallIds : calls[d].status = "done"}
       IN  calls' = [calls EXCEPT ![c] =
                        IF earlier = {}
                        THEN [Idle EXCEPT !.status = "done", !.log = o.log,
                                          !.result = o.res]
                        ELSE [Idle EXCEPT !.status = "done",
                                          !.result = calls[CHOOSE d \in earlier : TRUE].result]]
    /\ UNCHANGED <<world, site>>

\* Variant of extract that takes the World out of the container: it resolves
\* against a World of its own and stores that one back.
extract_replaces_world(c) ==
    /\ ~site.async
    /\ MayCall(c)
    /\ LET taken == [world EXCEPT !.username = "bob"]
           o == from_world(site.t, taken, <<>>)
       IN  /\ calls' = [calls EXCEPT ![c] =
                           [Idle EXCEPT !.status = "done", !.log = o.log,
                                        !.result = o.res]]
           /\ world' = taken
    /\ UNCHANGED site

\* DIContainer::extract
extract(c) ==
    /\ ~site.async
    /\ MayCall(c)
    /\ LET o == from_world(site.t, world, <<>>)
       IN  calls' = [calls EXCEPT ![c] =
                        [Idle EXCEPT !.status = "done", !.log = o.log,
                                     !.result = o.res]]
    /\ UNCHANGED <<world, site>>

----------------------------------------------------------------------------
(* async_dependency.rs: the asynchronous resolution.  A call owns a stack of  *)
(* frames, one per future being awaited; the top frame is the one polled.     *)

\* the future T::from_world(world), created and not yet polled
NewFrame(t, path, w) ==
    [t |-> t, path |-> path, w |-> w, pc |-> "new", idx |-> 0, vals |-> <<>>,
     susp |-> 0]

Top(k) == k.stack[Len(k.stack)]
Pop(k) == SubSeq(k.stack, 1, Len(k.stack) - 1)
SetTop(k, f) == [k.stack EXCEPT ![Len(k.stack)] = f]

Polling(k, kind) ==
    /\ k.status = "running"
    /\ k.stack # <<>>
    /\ k.ret.st = "none"
    /\ Top(k).pc = "new"
    /\ Kind(Top(k).t) = kind

Resuming(k, kind) ==
    /\ k.status = "running"
    /\ k.stack # <<>>
    /\ k.ret.st # "none"
    /\ Top(k).pc = "wait"
    /\ Kind(Top(k).t) = kind

\* a hand-written async fn from_world starts to run
direct_poll(k) ==
    LET f == Top(k)
    IN  [k EXCEPT !.stack = SetTop(k, [f EXCEPT !.pc = "fn"]),
                  !.log = @ \o <<Enter(f.t, f.path, f.w),
                                 Call("from_world", f.t, f.path, f.w)>>]

\* Variant of the async bridge that derives at once, from a Dependency it
\* has not resolved.
bridge_poll_derives_at_once(k) ==
    LET f == Top(k)
    IN  [k EXCEPT !.stack = SetTop(k, [f EXCEPT !.pc = "fn", !.vals = <<NoVal>>]),
                  !.log = @ \o <<Enter(f.t, f.path, f.w),
                                 Call("from_dependency", f.t, f.path, f.w)>>]

\* bridge, first half: <T::Dependency as FromAsyncWorld>::from_world(world)
bridge_poll(k) ==
    LET f == Top(k)
    IN  [k EXCEPT !.stack = Append(SetTop(k, [f EXCEPT !.pc = "wait", !.idx = 1]),
                                   NewFrame(Dependency(f.t), Append(f.path, 1), f.w)),
                  !.log = Append(@, Enter(f.t, f.path, f.w))]

\* Variant of the async bridge that derives even when the dependency failed.
bridge_resume_always_derives(k) ==
    LET f == Top(k)
        dependency == Question(k.ret, ErrorTy(f.t))
    IN  [k EXCEPT !.stack = SetTop(k, [f EXCEPT !.pc = "fn",
                                               !.vals = <<dependency.val>>]),
                  !.ret = NoRes,
                  !.log = Append(@, Call("from_dependency", f.t, f.path, f.w))]

\* bridge, second half: .await? and then Self::from_dependency(world, &dependency)
bridge_resume(k) ==
    LET f == Top(k)
        dependency == Question(k.ret, ErrorTy(f.t))
    IN  IF dependency.st # "ok"
        THEN [k EXCEPT !.stack = Pop(k),
                       !.ret = dependency,
                       !.log = Append(@, Ret(f.t, f.path, f.w, dependency))]
        ELSE [k EXCEPT !.stack = SetTop(k, [f EXCEPT !.pc = "fn",
                                                    !.vals = <<dependency.val>>]),
                       !.ret = NoRes,
                       !.log = Append(@, Call("from_dependency", f.t, f.path, f.w))]

\* Variant of the async tuple that starts with its last member.
tuple_poll_last_first(k) ==
    LET f == Top(k)
        n == Len(Members(f.t))
    IN  [k EXCEPT !.stack = Append(SetTop(k, [f EXCEPT !.pc = "wait", !.idx = n]),
                                   NewFrame(Members(f.t)[n], Append(f.path, n), f.w)),
                  !.log = Append(@, Enter(f.t, f.path, f.w))]

\* impl_tuple!, first member: $first_name::from_world(world)
tuple_poll(k) ==
    LET f == Top(k)
    IN  [k EXCEPT !.stack = Append(SetTop(k, [f EXCEPT !.pc = "wait", !.idx = 1]),
                                   NewFrame(Members(f.t)[1], Append(f.path, 1), f.w)),
                  !.log = Append(@, Enter(f.t, f.path, f.w))]

\* Variant of the async tuple that goes on to the next member after a failure.
tuple_resume_continues(k) ==
    LET f == Top(k)
        r == Question(k.ret, ErrorTy(f.t))
        vals == Append(f.vals, r.val)
        tuple == Ok(Val(T("tuple", Len(vals)), "", vals))
    IN  IF f.idx = Len(Members(f.t))
        THEN [k EXCEPT !.stack = Pop(k),
                       !.ret = IF r.st = "ok" THEN tuple ELSE r,
                       !.log = Append(@, Ret(f.t, f.path, f.w,
                                             IF r.st = "ok" THEN tuple ELSE r))]
        ELSE [k EXCEPT !.stack = Append(SetTop(k, [f EXCEPT !.idx = f.idx + 1,
                                                           !.vals = vals]),
                                        NewFrame(Members(f.t)[f.idx + 1],
                                                 Append(f.path, f.idx + 1), f.w)),
                       !.ret = NoRes]

\* impl_tuple!: .await? of member idx, then the next member or Ok((...))
tuple_resume(k) ==
    LET f == Top(k)
        r == Question(k.ret, ErrorTy(f.t))
        vals == Append(f.vals, r.val)
        tuple == Ok(Val(T("tuple", Len(vals)), "", vals))
    IN  IF r.st # "ok"
        THEN [k EXCEPT !.stack = Pop(k),
                       !.ret = r,
                       !.log = Append(@, Ret(f.t, f.path, f.w, r))]
        ELSE IF f.idx = Len(Members(f.t))
        THEN [k EXCEPT !.stack = Pop(k),
                       !.ret = tuple,
                       !.log = Append(@, Ret(f.t, f.path, f.w, tuple))]
        ELSE [k EXCEPT !.stack = Append(SetTop(k, [f EXCEPT !.idx = f.idx + 1,
                                                           !.vals = vals]),
                                        NewFrame(Members(f.t)[f.idx + 1],
                                                 Append(f.path, f.idx + 1), f.w)),
                       !.ret = NoRes]

\* the value a running construction function completes with
fn_result(f) ==
    IF Kind(f.t) = "direct" THEN user_from_world(f.t, f.w)
    ELSE user_from_dependency(f.t, f.w, f.vals[1])

\* a construction function completes; its future is dropped
fn_return(k) ==
    LET f == Top(k)
        r == fn_result(f)
    IN  [k EXCEPT !.stack = Pop(k),
                  !.ret = r,
                  !.log = Append(@, Ret(f.t, f.path, f.w, r))]

\* DIContainer::extract_async: T::from_world(&self.world)
extract_async(c) ==
    /\ site.async
    /\ MayCall(c)
    /\ calls' = [calls EXCEPT ![c] =
                    [Idle EXCEPT !.status = "running",
                                 !.stack = <<NewFrame(site.t, <<>>, world)>>]]
    /\ UNCHANGED <<world, site>>

PollDirect(c) ==
    /\ Polling(calls[c], "direct")
    /\ calls' = [calls EXCEPT ![c] = direct_poll(calls[c])]
    /\ UNCHANGED <<world, site>>

\* Variant of the bridge that takes a Dependency some other call of the
\* container has already resolved instead of resolving its own.
PollBridge_takes_resolved(c) ==
    /\ Polling(calls[c], "derived")
    /\ LET k == calls[c]
           f == Top(k)
           dep == Dependency(f.t)
           resolved ==
               \E d \in CallIds \ {c} : \E i \in 1..Len(calls[d].log) :
                   /\ calls[d].log[i].ev = "ret"
                   /\ calls[d].log[i].t = dep
                   /\ calls[d].log[i].st = "ok"
       IN  calls' = [calls EXCEPT ![c] =
               IF resolved
               THEN [k EXCEPT
                       !.stack = SetTop(k, [f EXCEPT !.pc = "fn",
                                   !.vals = <<from_world(dep, f.w, Append(f.path, 1)).res.val>>]),
                       !.log = @ \o <<Enter(f.t, f.path, f.w),
                                      Call("from_dependency", f.t, f.path, f.w)>>]
               ELSE bridge_poll(k)]
    /\ UNCHANGED <<world, site>>

PollBridge(c) ==
    /\ Polling(calls[c], "derived")
    /\ calls' = [calls EXCEPT ![c] = bridge_poll(calls[c])]
    /\ UNCHANGED <<world, site>>

ResumeBridge(c) ==
    /\ Resuming(calls[c], "derived")
    /\ calls' = [calls EXCEPT ![c] = bridge_resume(calls[c])]
    /\ UNCHANGED <<world, site>>

PollTuple(c) ==
    /\ Polling(calls[c], "tuple")
    /\ calls' = [calls EXCEPT ![c] = tuple_poll(calls[c])]
    /\ UNCHANGED <<world, site>>

ResumeTuple(c) ==
    /\ Resuming(calls[c], "tuple")
    /\ calls' = [calls EXCEPT ![c] = tuple_resume(calls[c])]
    /\ UNCHANGED <<world, site>>

\* a construction function reaches an .await that is not ready: Poll::Pending
Suspend(c) ==
    /\ calls[c].status = "running"
    /\ calls[c].stack # <<>>
    /\ Top(calls[c]).pc = "fn"
    /\ Top(calls[c]).susp < MaxSuspend
    /\ LET k == calls[c]
           f == Top(k)
       IN  calls' = [calls EXCEPT ![c] =
                        [k EXCEPT !.status = "pending",
                                  !.stack = SetTop(k, [f EXCEPT !.susp = f.susp + 1])]]
    /\ UNCHANGED <<world, site>>

\* the executor polls the task again
Wake(c) ==
    /\ calls[c].status = "pending"
    /\ calls' = [calls EXCEPT ![c] = [calls[c] EXCEPT !.status = "running"]]
    /\ UNCHANGED <<world, site>>

FnReturn(c) ==
    /\ calls[c].status = "running"
    /\ calls[c].stack # <<>>
    /\ Top(calls[c]).pc = "fn"
    /\ calls' = [calls EXCEPT ![c] = fn_return(calls[c])]
    /\ UNCHANGED <<world, site>>

\* extract_async's .await completes: the caller receives the result
ExtractAsyncReturn(c) ==
    /\ calls[c].status = "running"
    /\ calls[c].stack = <<>>
    /\ calls[c].ret.st # "none"
    /\ calls' = [calls EXCEPT ![c] =
                    [calls[c] EXCEPT !.status = "done",
                                     !.result = calls[c].ret,
                                     !.ret = NoRes]]
    /\ UNCHANGED <<world, site>>

Next ==
    \E c \in CallIds :
        \/ extract(c)
        \/ extract_async(c)
        \/ PollDirect(c)
        \/ PollBridge(c)
        \/ ResumeBridge(c)
        \/ PollTuple(c)
        \/ ResumeTuple(c)
        \/ Suspend(c)
        \/ Wake(c)
        \/ FnReturn(c)
        \/ ExtractAsyncReturn(c)

Spec == Init /\ [][Next]_vars

----------------------------------------------------------------------------
(* Tasks that share one container: every task holds &DIContainer, calls     *)
(* extract or extract_async when it pleases, and may drop the future of     *)
(* extract_async while it is suspended.  The steps of the calls interleave. *)

\* the types the tasks extract
SharedRoots == {T("Looper", 0), T("Tup", MinArity)}
SharedSites == {s \in Sites : s.t \in SharedRoots}
SharedWorlds == UNION {Worlds(t) : t \in SharedRoots}

\* DIContainer::new(world); site is the call site of the first task
InitShared ==
    /\ site \in SharedSites
    /\ world \in SharedWorlds
    /\ calls = [c \in CallIds |-> Idle]

\* a task may call whatever the other tasks are doing
MayCallShared(c, s) ==
    /\ calls[c].status = "idle"
    /\ s \in SharedSites
    /\ c = 1 => s = site

\* DIContainer::extract, by a task of its own
extract_shared(c, s) ==
    /\ ~s.async
    /\ MayCallShared(c, s)
    /\ LET o == from_world(s.t, world, <<>>)
       IN  calls' = [calls EXCEPT ![c] =
                        [Idle EXCEPT !.status = "done", !.log = o.log,
                                     !.result = o.res]]
    /\ UNCHANGED <<world, site>>

\* DIContainer::extract_async, by a task of its own
extract_async_shared(c, s) ==
    /\ s.async
    /\ MayCallShared(c, s)
    /\ calls' = [calls EXCEPT ![c] =
                    [Idle EXCEPT !.status = "running",
                                 !.stack = <<NewFrame(s.t, <<>>, world)>>]]
    /\ UNCHANGED <<world, site>>

\* Variant of the drop that hands the caller an error for the abandoned chain.
drop_reports_error(k) ==
    [k EXCEPT !.status = "cancelled", !.stack = <<>>, !.ret = NoRes,
              !.result = Err(Error(ErrorTy(k.stack[1].t), "cancelled",
                                   Top(k).t, <<>>))]

\* The future of extract_async is dropped: its frames, and the values they
\* hold, go with it.  No type of the crate implements Drop.
drop(k) ==
    [k EXCEPT !.status = "cancelled", !.stack = <<>>, !.ret = NoRes]

\* a task abandons its extract_async at a suspension point
Cancel(c) ==
    /\ calls[c].status = "pending"
    /\ calls' = [calls EXCEPT ![c] = drop(calls[c])]
    /\ UNCHANGED <<world, site>>

NextShared ==
    \E c \in CallIds :
        \/ \E s \in SharedSites : extract_shared(c, s)
        \/ \E s \in SharedSites : extract_async_shared(c, s)
        \/ PollDirect(c)
        \/ PollBridge(c)
        \/ ResumeBridge(c)
        \/ PollTuple(c)
        \/ ResumeTuple(c)
        \/ Suspend(c)
        \/ Wake(c)
        \/ FnReturn(c)
        \/ ExtractAsyncReturn(c)
        \/ Cancel(c)

SpecShared == InitShared /\ [][NextShared]_vars

----------------------------------------------------------------------------
(* Properties *)

Done(c) == calls[c].status = "done"

IsCall(e) == e.ev = "call"
Invocations(log) == SelectSeq(log, IsCall)

\* how often the construction function of t is invoked in log
Invoked(log, t) == Cardinality({i \in 1..Len(log) : IsCall(log[i]) /\ log[i].t = t})

\* targets that have a construction function of their own
Constructed(t) == {u \in Chain(t) : Kind(u) # "tuple"}

TwoLevel(t) == Kind(t) = "derived" /\ Kind(Dependency(t)) = "direct"

\* C1: in a two-level chain A -> B whose B fails with E, extract of A returns
\* exactly E and A's from_dependency is invoked zero times.
C1_DependencyErrorShortCircuits ==
    \A c \in CallIds :
        LET b == user_from_world(Dependency(site.t), world)
        IN  (/\ ~site.async
             /\ Done(c)
             /\ TwoLevel(site.t)
             /\ b.st = "err")
              => /\ calls[c].result = Err(b.err)
                 /\ Invoked(calls[c].log, site.t) = 0
                 /\ Invoked(calls[c].log, Dependency(site.t)) = 1

C1_Witness ==
    \E c \in CallIds :
        /\ ~site.async
        /\ Done(c)
        /\ site.t = T("L", 2)
        /\ T("L", 1) \in world.failing
        /\ calls[c].result.st = "err"

\* the events of log that are calls of from_world on a member of the root tuple
IsMemberEnter(e) == e.ev = "enter" /\ Len(e.path) = 1
MemberEnters(log) == SelectSeq(log, IsMemberEnter)

\* the result member i of the root tuple resolves to, taken on its own
MemberResult(i) == from_world(Members(site.t)[i], world, <<i>>).res

FailingMembers == {i \in 1..Len(Members(site.t)) : MemberResult(i).st = "err"}
FirstFailing == CHOOSE k \in FailingMembers : \A j \in FailingMembers : k <= j

\* C2: in a tuple of N members whose first failing member is member k, members
\* 1..k are invoked once each from left to right, members k+1..N are never
\* invoked, and the tuple returns member k's error.
C2_TupleShortCircuits ==
    \A c \in CallIds :
        (/\ ~site.async
         /\ Done(c)
         /\ Kind(site.t) = "tuple"
         /\ FailingMembers # {})
          => LET ms == MemberEnters(calls[c].log)
                 direct == {i \in 1..Len(Members(site.t)) :
                               Kind(Members(site.t)[i]) = "direct"}
             IN  /\ Len(ms) = FirstFailing
                 /\ \A i \in 1..FirstFailing :
                        ms[i].t = Members(site.t)[i] /\ ms[i].path = <<i>>
                 /\ \A i \in direct :
                        Invoked(calls[c].log, Members(site.t)[i])
                          = IF i <= FirstFailing THEN 1 ELSE 0
                 /\ calls[c].result = Err(MemberResult(FirstFailing).err)

C2_Witness ==
    \E c \in CallIds :
        /\ ~site.async
        /\ Done(c)
        /\ site.t = T("Tup", 3)
        /\ world.failing = {T("M", 2)}
        /\ Invoked(calls[c].log, T("M", 1)) = 1
        /\ calls[c].result.st = "err"

\* C3: when every construction of a linear chain of depth N succeeds, one extract
\* of the deepest type invokes each level's construction function exactly once,
\* the leaf first and the extracted type last.
C3_ChainLeafFirst ==
    \A c \in CallIds :
        (/\ ~site.async
         /\ Done(c)
         /\ site.t \in ChainTargets
         /\ world.failing = {})
          => LET inv == Invocations(calls[c].log)
                 n == site.t[2]
             IN  /\ Len(inv) = n
                 /\ \A i \in 1..n :
                        /\ inv[i].t = T("L", i)
                        /\ inv[i].fn = IF i = 1 THEN "from_world"
                                       ELSE "from_dependency"
                 /\ calls[c].result.st = "ok"

C3_Witness ==
    \E c \in CallIds :
        /\ ~site.async
        /\ Done(c)
        /\ site.t = T("L", ChainDepth)
        /\ world.failing = {}
        /\ Len(Invocations(calls[c].log)) = ChainDepth

DoneCalls == {c \in CallIds : Done(c)}
Quiet == \A c \in CallIds : calls[c].status \in {"idle", "done"}

RECURSIVE TotalInvoked(_, _)
TotalInvoked(cs, t) ==
    IF cs = {} THEN 0
    ELSE LET c == CHOOSE x \in cs : TRUE
         IN  Invoked(calls[c].log, t) + TotalInvoked(cs \ {c}, t)

\* C4: after k extract calls for the same target on one container every
\* construction function of the chain has been invoked k times its per-extract
\* count, and each successful extract invokes every function of the chain.
C4_NoCaching ==
    (~site.async /\ Quiet /\ DoneCalls # {})
      => \A t \in Constructed(site.t) :
            /\ TotalInvoked(DoneCalls, t)
                 = Cardinality(DoneCalls) * Invoked(calls[1].log, t)
            /\ \A c \in DoneCalls :
                   calls[c].result.st = "ok" => Invoked(calls[c].log, t) >= 1

C4_Witness ==
    /\ ~site.async
    /\ Cardinality(DoneCalls) = 2
    /\ site.t = T("Looper", 0)
    /\ TotalInvoked(DoneCalls, T("Printer", 0)) = 2
    /\ TotalInvoked(DoneCalls, T("Looper", 0)) = 2

\* C5: with no Authorization in the World, extract_async of ValidatedUser returns
\* Unauthorized and ValidatedUser's from_dependency, with the service lookup in
\* it, is never invoked.
C5_AsyncUnauthorizedShortCircuits ==
    \A c \in CallIds :
        (/\ site = [t |-> T("ValidatedUser", 0), async |-> TRUE]
         /\ world.authorization = NoHeader)
          => /\ Invoked(calls[c].log, T("ValidatedUser", 0)) = 0
             /\ Done(c) => calls[c].result = Err(UNAUTHORIZED)

C5_Witness ==
    \E c \in CallIds :
        /\ site = [t |-> T("ValidatedUser", 0), async |-> TRUE]
        /\ world.authorization = NoHeader
        /\ Done(c)
        /\ Invoked(calls[c].log, T("AuthHeader", 0)) = 1

IsPrefix(p, q) == Len(p) <= Len(q) /\ SubSeq(q, 1, Len(p)) = p

\* the events of log that belong to the resolution at position path
At(log, path) == {i \in 1..Len(log) : IsPrefix(path, log[i].path)}

\* the positions of log at which the resolution at position path returned Ok
ReturnedOk(log, path) ==
    {i \in 1..Len(log) :
        log[i].ev = "ret" /\ log[i].path = path /\ log[i].st = "ok"}

Returned(log, path) ==
    {i \in 1..Len(log) : log[i].ev = "ret" /\ log[i].path = path}

\* the members of the tuple at position path whose resolution has started and
\* has not returned
InProgress(log, t, path) ==
    {i \in 1..Len(Members(t)) :
        At(log, Append(path, i)) # {} /\ Returned(log, Append(path, i)) = {}}

\* C6: inside one extract_async the members of a tuple are resolved one after
\* the other: nothing of member j happens before every member i < j has
\* returned Ok, and at most one member is in progress at any time, suspended
\* or not.
C6_AsyncTupleSequential ==
    \A c \in CallIds :
        LET log == calls[c].log
        IN  site.async
              => \A p \in 1..Len(log) :
                    (log[p].ev = "enter" /\ Kind(log[p].t) = "tuple")
                      => /\ Cardinality(InProgress(log, log[p].t, log[p].path)) <= 1
                         /\ \A j \in 2..Len(Members(log[p].t)) :
                              \A q \in At(log, Append(log[p].path, j)) :
                                \A i \in 1..(j - 1) :
                                  \E r \in ReturnedOk(log, Append(log[p].path, i)) :
                                      r < q

C6_Witness ==
    \E c \in CallIds :
        /\ site = [t |-> T("Tup", 3), async |-> TRUE]
        /\ calls[c].status = "pending"
        /\ Top(calls[c]).t = T("M", 2)
        /\ InProgress(calls[c].log, T("Tup", 3), <<>>) = {2}

\* the steps of a resolution of t in walk order: the dependency before the
\* dependent, the members of a tuple from left to right
RECURSIVE Walk(_, _)
RECURSIVE WalkMembers(_, _, _)
WalkMembers(t, path, i) ==
    IF i > Len(Members(t)) THEN <<>>
    ELSE Walk(Members(t)[i], Append(path, i)) \o WalkMembers(t, path, i + 1)

Walk(t, path) ==
    CASE Kind(t) = "direct" -> <<[fn |-> "from_world", t |-> t, path |-> path]>>
      [] Kind(t) = "derived" ->
           Append(Walk(Dependency(t), Append(path, 1)),
                  [fn |-> "from_dependency", t |-> t, path |-> path])
      [] Kind(t) = "tuple" -> WalkMembers(t, path, 1)

\* the error a step produces in World w, NoErr when it succeeds
StepError(s, w) ==
    IF s.fn = "from_world" THEN user_from_world(s.t, w).err
    ELSE user_from_dependency(s.t, w, NoVal).err

FailingSteps(t, w) ==
    {i \in 1..Len(Walk(t, <<>>)) : StepError(Walk(t, <<>>)[i], w) # NoErr}

FirstFailingStep(t, w) ==
    Walk(t, <<>>)[CHOOSE i \in FailingSteps(t, w) :
                     \A j \in FailingSteps(t, w) : i <= j]

RECURSIVE TargetAt(_, _)
TargetAt(t, path) ==
    IF path = <<>> THEN t
    ELSE TargetAt(IF Kind(t) = "derived" THEN Dependency(t)
                  ELSE Members(t)[Head(path)], Tail(path))

\* the Derived links above position path whose Error type is not the Error
\* type of their Dependency
ConvertingLinks(t, path) ==
    {n \in 0..(Len(path) - 1) :
        LET u == TargetAt(t, SubSeq(path, 1, n))
        IN  Kind(u) = "derived" /\ ErrorTy(u) # ErrorTy(Dependency(u))}

\* error e after the declared conversions of the links n..0 above it
RECURSIVE Converted(_, _, _, _)
Converted(e, t, path, n) ==
    IF n < 0 THEN e
    ELSE LET u == TargetAt(t, SubSeq(path, 1, n))
         IN  Converted(IF n \in ConvertingLinks(t, path)
                       THEN FromWrapped(e, ErrorTy(u)) ELSE e,
                       t, path, n - 1)

\* C7 as stated: the caller receives the Error value of the first failing step
\* in walk order, unchanged, in extract and in extract_async.
C7_ErrorUnchanged ==
    \A c \in CallIds :
        (Done(c) /\ FailingSteps(site.t, world) # {})
          => calls[c].result
               = Err(StepError(FirstFailingStep(site.t, world), world))

\* C7, amended: the caller receives the Error value of the first failing step
\* in walk order, converted by the declared From conversion of each Derived
\* link above it whose Error type differs from its Dependency's and otherwise
\* unchanged (in extract always unchanged); the failing step is invoked once and
\* is the last one invoked; without a failing step the result is Ok.
C7_ErrorOfFirstFailure ==
    \A c \in CallIds :
        Done(c) =>
          IF FailingSteps(site.t, world) = {}
          THEN calls[c].result.st = "ok"
          ELSE LET s == FirstFailingStep(site.t, world)
                   e == StepError(s, world)
                   inv == Invocations(calls[c].log)
               IN  /\ calls[c].result
                        = Err(Converted(e, site.t, s.path, Len(s.path) - 1))
                   /\ (~site.async \/ ConvertingLinks(site.t, s.path) = {})
                        => calls[c].result = Err(e)
                   /\ inv # <<>>
                   /\ inv[Len(inv)].t = s.t /\ inv[Len(inv)].path = s.path
                   /\ Cardinality({i \in 1..Len(inv) : inv[i].path = s.path}) = 1

C7_Witness ==
    \E c \in CallIds :
        /\ site = [t |-> T("Profile", 0), async |-> TRUE]
        /\ Done(c)
        /\ world.authorization = NoHeader
        /\ calls[c].result = Err(FromWrapped(UNAUTHORIZED, "AppError"))

\* C8: when every step succeeds, extract of a Derived target returns the value
\* its derivation function produces from the World and the value resolved for
\* its Dependency; Looper holds the Printer that copied the World's username.
C8_DerivedValue ==
    \A c \in CallIds :
        (/\ ~site.async
         /\ Done(c)
         /\ Kind(site.t) = "derived"
         /\ FailingSteps(site.t, world) = {})
          => LET dep == from_world(Dependency(site.t), world, <<1>>).res
             IN  /\ dep.st = "ok"
                 /\ calls[c].result = user_from_dependency(site.t, world, dep.val)
                 /\ site.t = T("Looper", 0)
                      => /\ calls[c].result.st = "ok"
                         /\ calls[c].result.val.tag = T("Looper", 0)
                         /\ calls[c].result.val.kids
                              = <<Val(T("Printer", 0), world.username, <<>>)>>

C8_Witness ==
    \E c \in CallIds :
        /\ site = [t |-> T("Looper", 0), async |-> FALSE]
        /\ world.username = "alice"
        /\ Done(c)
        /\ calls[c].result.val.kids[1].data = "alice"

\* C9: when every member succeeds, a tuple resolves to the ordered tuple of its
\* members' values, position i holding the value of member i, and every
\* construction function was given the World the tuple was given.
C9_TupleValue ==
    \A c \in CallIds :
        (/\ Done(c)
         /\ Kind(site.t) = "tuple"
         /\ FailingSteps(site.t, world) = {})
          => /\ calls[c].result.st = "ok"
             /\ calls[c].result.val.kids
                  = [i \in 1..Len(Members(site.t)) |-> MemberResult(i).val]
             /\ \A i \in 1..Len(calls[c].log) : calls[c].log[i].w = world

C9_Witness ==
    \E c \in CallIds :
        /\ Done(c)
        /\ site.t = T("Tup", MaxArity)
        /\ world.username = "bob"
        /\ Len(calls[c].result.val.kids) = MaxArity
        /\ calls[c].result.val.kids[MaxArity] = Val(T("M", MaxArity), "bob", <<>>)

\* C10: for a graph both variants accept, extract_async does what extract does:
\* at every moment its events are a prefix of those of extract, wherever it
\* suspends, and it ends with the same events and the same result.
C10_AsyncMatchesSync ==
    \A c \in CallIds :
        (site.async /\ site.t \in SyncTargets)
          => LET sync == from_world(site.t, world, <<>>)
             IN  /\ IsPrefix(calls[c].log, sync.log)
                 /\ Done(c) => /\ calls[c].log = sync.log
                               /\ calls[c].result = sync.res

C10_Witness ==
    \E c \in CallIds :
        /\ site = [t |-> T("Nest", 0), async |-> TRUE]
        /\ world.failing = {T("C", 0)}
        /\ calls[c].status = "pending"
        /\ Top(calls[c]).t = T("C", 0)
        /\ Top(calls[c]).susp = MaxSuspend

\* the type a call extracts: that of its outermost future
CallTarget(k) == IF k.stack # <<>> THEN k.stack[1].t ELSE k.log[1].t

Started(c) == calls[c].status \in {"running", "pending", "done"}

\* C11: calls that overlap on one container do not interfere.  Under every
\* interleaving each call performs the events of the same call run alone, in
\* the same order, and returns its result; every value a frame of a call holds
\* was returned inside that call.
C11_SharedCallsIndependent ==
    \A c \in CallIds :
        (Started(c) /\ (calls[c].stack # <<>> \/ calls[c].log # <<>>))
          => LET k == calls[c]
                 alone == from_world(CallTarget(k), world, <<>>)
             IN  /\ IsPrefix(k.log, alone.log)
                 /\ Done(c) => /\ k.log = alone.log
                               /\ k.result = alone.res
                 /\ \A n \in 1..Len(k.stack) : \A i \in 1..Len(k.stack[n].vals) :
                        ReturnedOk(k.log, Append(k.stack[n].path, i)) # {}
                 /\ Done(c) => k.log # <<>>

\* two calls for Looper in flight at once: one suspended in the construction
\* of its Printer, the other deriving from the Printer it has resolved
C11_Witness ==
    /\ calls[1].status = "pending"
    /\ Top(calls[1]).t = T("Printer", 0)
    /\ calls[2].status = "running"
    /\ calls[2].stack # <<>>
    /\ Top(calls[2]).t = T("Looper", 0)
    /\ Top(calls[2]).pc = "fn"
    /\ Len(Top(calls[2]).vals) = 1

\* C12: an extract_async abandoned at a suspension point is abandoned as a
\* whole.  The step that cancels it starts from a suspended call, adds no
\* event, discards the frames and the values they hold, delivers no result
\* and touches neither the World nor another call; from then on nothing of
\* that call ever changes, so no construction function of its chain starts
\* and nothing is rolled back.
C12_CancelAbandonsChain ==
    [][\A c \in CallIds :
          /\ calls[c].status = "cancelled" => calls'[c] = calls[c]
          /\ (calls[c].status # "cancelled" /\ calls'[c].status = "cancelled")
               => /\ calls[c].status = "pending"
                  /\ calls'[c].log = calls[c].log
                  /\ calls'[c].stack = <<>>
                  /\ calls'[c].ret = NoRes
                  /\ calls'[c].result = NoRes
                  /\ world' = world
                  /\ \A d \in CallIds \ {c} : calls'[d] = calls[d]]_vars

\* a Looper call cancelled while its derivation was suspended, the Printer it
\* had resolved gone with it, and another call of the container completed
C12_Witness ==
    \E c, d \in CallIds :
        /\ calls[c].status = "cancelled"
        /\ calls[c].stack = <<>>
        /\ ReturnedOk(calls[c].log, <<1>>) # {}
        /\ calls[c].log[Len(calls[c].log)]
             = Call("from_dependency", T("Looper", 0), <<>>, world)
        /\ calls[c].result = NoRes
        /\ Done(d)

\* C13: the resolver never changes the World of the container.  No step of an
\* extract or an extract_async, successful or failing, changes the stored
\* World, so it stays the value given to new; every event of every call, and
\* every future waiting to run, carries that World.
C13_WorldUnchanged ==
    /\ [][world' = world]_vars
    /\ [](\A c \in CallIds :
            /\ \A i \in 1..Len(calls[c].log) : calls[c].log[i].w = world
            /\ \A n \in 1..Len(calls[c].stack) : calls[c].stack[n].w = world)

\* every call of the caller is over, and each of them failed in the middle of
\* its chain, after some construction function had succeeded
C13_Witness ==
    \A c \in CallIds :
        /\ Done(c)
        /\ calls[c].result.st = "err"
        /\ \E i \in 1..Len(calls[c].log) :
               calls[c].log[i].ev = "ret" /\ calls[c].log[i].st = "ok"

\* the tuple type t has a member whose World or Error is not that of the first
MembersDiffer(t) ==
    \E i \in 1..Len(Members(t)) :
        \/ WorldTy(Members(t)[i]) # WorldTy(Members(t)[1])
        \/ ErrorTy(Members(t)[i]) # ErrorTy(Members(t)[1])

Accepted(t) == t \in SyncTargets \cup AsyncTargets

\* C14 as stated: whenever an extraction runs, every type of its chain has
\* the World and the Error type of the target.  An extract_async of a Derived
\* type whose Error differs from that of its Dependency runs all the same.
C14_OneErrorTypePerChain ==
    \A c \in CallIds :
        calls[c].status # "idle"
          => \A u \in Chain(site.t) :
                 /\ WorldTy(u) = WorldTy(site.t)
                 /\ ErrorTy(u) = ErrorTy(site.t)

\* C14: what the bounds of the traits reject and what can therefore run.
\* A Derived type whose Dependency has another World is rejected by both
\* variants, and so is a tuple whose members differ in World or Error.  A
\* Derived type whose Dependency has another Error is rejected by the sync
\* variant; the async variant accepts it exactly when its Error converts From
\* the Error of the Dependency.  So every chain an extraction runs on has one
\* World; a chain of extract has one Error; a chain of extract_async changes
\* Error only from a Dependency to its Derived type, along a declared From.
C14_ChainTypes ==
    /\ \A t \in Targets :
         /\ (Kind(t) = "derived" /\ WorldTy(Dependency(t)) # WorldTy(t))
              => ~Accepted(t)
         /\ (Kind(t) = "derived" /\ ErrorTy(Dependency(t)) # ErrorTy(t))
              => /\ t \notin SyncTargets
                 /\ t \in AsyncTargets
                      => HasFrom(ErrorTy(Dependency(t)), ErrorTy(t))
         /\ (Kind(t) = "tuple" /\ MembersDiffer(t)) => ~Accepted(t)
    /\ \A c \in CallIds :
         calls[c].status # "idle"
           => \A u \in Chain(site.t) :
                  /\ WorldTy(u) = WorldTy(site.t)
                  /\ ~site.async => ErrorTy(u) = ErrorTy(site.t)
                  /\ Kind(u) = "derived"
                       => HasFrom(ErrorTy(Dependency(u)), ErrorTy(u))
                  /\ Kind(u) = "tuple" => ~MembersDiffer(u)

\* an extract_async of Lifted, whose Error is not that of its Dependency L1,
\* has run and returned the failure of L1 converted; the sync variant rejects
\* Lifted, and both reject Alien, Opaque, Mixed and Split
C14_Witness ==
    \E c \in CallIds :
        /\ site = [t |-> T("Lifted", 0), async |-> TRUE]
        /\ T("Lifted", 0) \notin SyncTargets
        /\ ~Accepted(T("Alien", 0)) /\ ~Accepted(T("Opaque", 0))
        /\ ~Accepted(T("Mixed", 0)) /\ ~Accepted(T("Split", 0))
        /\ Done(c)
        /\ calls[c].result.st = "err"
        /\ calls[c].result.err.type = "AppError"
        /\ calls[c].result.err.via = <<"E">>

\* the positions of log at which the derivation function at position path starts
Derivations(log) ==
    {q \in 1..Len(log) : IsCall(log[q]) /\ log[q].fn = "from_dependency"}

\* the positions of log before q at which the construction function of step s
\* was invoked
InvokedBefore(log, s, q) ==
    {j \in 1..(q - 1) : IsCall(log[j]) /\ log[j].path = s.path /\ log[j].t = s.t}

\* C15: no node is constructed before its transitive dependencies.  In every
\* extraction of either variant, when the derivation function of a Derived
\* type starts, the resolution of its Dependency has returned Ok, and so has
\* every construction function below it, each invoked once; when the
\* Dependency is a tuple its members have returned Ok one after the other,
\* left to right; and nothing below the Dependency has failed.
C15_DependenciesFirst ==
    \A c \in CallIds : \A q \in Derivations(calls[c].log) :
        LET log == calls[c].log
            t == log[q].t
            dep == Dependency(t)
            at == Append(log[q].path, 1)
            below == Walk(dep, at)
            before(path) == {r \in ReturnedOk(log, path) : r < q}
        IN  /\ before(at) # {}
            /\ \A n \in 1..Len(below) :
                   /\ Cardinality(InvokedBefore(log, below[n], q)) = 1
                   /\ before(below[n].path) # {}
            /\ \A i \in At(log, at) : i < q => log[i].st # "err"
            /\ Kind(dep) = "tuple"
                 => \A i \in 1..Len(Members(dep)) :
                        /\ before(Append(at, i)) # {}
                        /\ \A j \in (i + 1)..Len(Members(dep)) :
                               \A r \in before(Append(at, i)) :
                                   \A e \in At(log, Append(at, j)) : r < e

\* an extract_async of A suspended in its derivation function: both members
\* of its Dependency (B, C) are resolved
C15_Witness ==
    \E c \in CallIds :
        /\ site = [t |-> T("A", 0), async |-> TRUE]
        /\ calls[c].status = "pending"
        /\ Top(calls[c]).t = T("A", 0)
        /\ Top(calls[c]).pc = "fn"
        /\ ReturnedOk(calls[c].log, <<1, 1>>) # {}
        /\ ReturnedOk(calls[c].log, <<1, 2>>) # {}

\* the construction functions a log invokes, in order, each with its position
Steps(log) ==
    LET inv == Invocations(log)
    IN  [i \in 1..Len(inv) |->
            [fn |-> inv[i].fn, t |-> inv[i].t, path |-> inv[i].path]]

\* C16: nothing resolved is shared inside one extraction.  A successful
\* extraction of either variant invokes one construction function for every
\* position of its chain, in the order of the walk, however often a type
\* occurs; for A derived from (B, C), with B and C derived from D, that is
\* D, B, D, C, A, the two D at the positions below B and below C.
C16_NoSharingInsideExtraction ==
    \A c \in CallIds :
        /\ (Done(c) /\ calls[c].result.st = "ok")
             => Steps(calls[c].log) = Walk(site.t, <<>>)
        /\ (Done(c) /\ site.t = T("A", 0) /\ world.failing = {})
             => /\ calls[c].result.st = "ok"
                /\ Steps(calls[c].log) =
                     << [fn |-> "from_world", t |-> T("D", 0), path |-> <<1, 1, 1>>],
                        [fn |-> "from_dependency", t |-> T("B", 0), path |-> <<1, 1>>],
                        [fn |-> "from_world", t |-> T("D", 0), path |-> <<1, 2, 1>>],
                        [fn |-> "from_dependency", t |-> T("C", 0), path |-> <<1, 2>>],
                        [fn |-> "from_dependency", t |-> T("A", 0), path |-> <<>>] >>
                /\ Invoked(calls[c].log, T("D", 0)) = 2

\* one successful extract of A
C16_Witness ==
    \E c \in CallIds :
        /\ site = [t |-> T("A", 0), async |-> FALSE]
        /\ Done(c)
        /\ calls[c].result.st = "ok"
        /\ Invoked(calls[c].log, T("D", 0)) = 2
        /\ \A d \in CallIds \ {c} : calls[d].status = "idle"

====
